---------------------------- MODULE Spec2Model ----------------------------
(***************************************************************************)
(* Model of yaws-rs/ylibc: the anonymous-mmap and hugepage crates (memory  *)
(* regions obtained with mmap(2) and released with a fallible, consuming   *)
(* try_drop) and the ysockaddr crate (SocketAddr <-> C sockaddr).          *)
(*                                                                         *)
(* Representation of machine values:                                       *)
(*  - a usize is a sequence of base-1000 digit groups, most significant    *)
(*    first, exactly as the Rust literals are grouped with `_`             *)
(*    (17_179_869_184 is <<17, 179, 869, 184>>);                           *)
(*  - a c_int flag word is the set of its set bit positions (0..31), so    *)
(*    `|` is \cup and `<<` moves positions and drops those above bit 31;   *)
(*  - a pointer is an abstract address: NULL is 0, MAP_FAILED is           *)
(*    the pointer -1, and the kernel hands out the addresses 1..NumSlots;  *)
(*  - a u32 / u128 is the sequence of its bytes, most significant first.   *)
(***************************************************************************)
EXTENDS Integers, Sequences, FiniteSets, TLC

VARIABLES
    mappings,     \* kernel: one record per successful mmap, index = mapping id
    anon_held,    \* AnonymousMmap values owned by the caller
    anon_errs,    \* AnonymousMmapError::MunmapFailed values owned by the caller
    huge_held,    \* HugePageBytes values owned by the caller
    huge_errs,    \* HugePageBytesError::MunmapFailed values owned by the caller
    last,         \* the last library call: its syscalls and what it returned
    target_endian,\* byte order of the build target
    sock          \* the socket-address conversion in progress

vars == <<mappings, anon_held, anon_errs, huge_held, huge_errs, last,
          target_endian, sock>>

memvars == <<mappings, anon_held, anon_errs, huge_held, huge_errs, last>>

(***************************************************************************)
(* Bounds of the model.                                                    *)
(***************************************************************************)
MaxNew == 2
MaxHugeNew == 1
NumSlots == 2

(***************************************************************************)
(* Pointers and libc constants (x86_64 Linux values of the libc crate).    *)
(***************************************************************************)
NULL == 0
MAP_FAILED == -1

RECURSIVE Pow2Int(_)
Pow2Int(k) == IF k = 0 THEN 1 ELSE 2 * Pow2Int(k - 1)

\* The bit positions set in the natural number n < 2^31.
Bits(n) == {i \in 0..30 : (n \div Pow2Int(i)) % 2 = 1}

\* `w << s` on a 32-bit word: bits shifted past bit 31 are lost.
Shl(w, s) == {b + s : b \in {x \in w : x + s <= 31}}

PROT_READ == Bits(1)
PROT_WRITE == Bits(2)
MAP_SHARED == Bits(1)
MAP_PRIVATE == Bits(2)
MAP_ANONYMOUS == Bits(32)
MAP_POPULATE == Bits(32768)
MAP_HUGETLB == Bits(262144)
MAP_HUGE_SHIFT == 26
MAP_HUGE_64KB == Shl(Bits(16), MAP_HUGE_SHIFT)
MAP_HUGE_512KB == Shl(Bits(19), MAP_HUGE_SHIFT)
MAP_HUGE_1MB == Shl(Bits(20), MAP_HUGE_SHIFT)
MAP_HUGE_2MB == Shl(Bits(21), MAP_HUGE_SHIFT)
MAP_HUGE_8MB == Shl(Bits(23), MAP_HUGE_SHIFT)
MAP_HUGE_16MB == Shl(Bits(24), MAP_HUGE_SHIFT)
MAP_HUGE_32MB == Shl(Bits(25), MAP_HUGE_SHIFT)
MAP_HUGE_256MB == Shl(Bits(28), MAP_HUGE_SHIFT)
MAP_HUGE_512MB == Shl(Bits(29), MAP_HUGE_SHIFT)
MAP_HUGE_1GB == Shl(Bits(30), MAP_HUGE_SHIFT)
MAP_HUGE_2GB == Shl(Bits(31), MAP_HUGE_SHIFT)
MAP_HUGE_16GB == Shl(Bits(34), MAP_HUGE_SHIFT)

(***************************************************************************)
(* HugePageChoice and its two translation tables.                          *)
(***************************************************************************)
HugePageChoice ==
    {"HUGE_64KB", "HUGE_512KB", "HUGE_1MB", "HUGE_2MB", "HUGE_8MB", "HUGE_16MB",
     "HUGE_32MB", "HUGE_256MB", "HUGE_512MB", "HUGE_1GB", "HUGE_2GB", "HUGE_16GB"}

as_libc_flag_swapped(self) ==
    CASE self = "HUGE_64KB" -> MAP_HUGE_64KB
      [] self = "HUGE_512KB" -> MAP_HUGE_512KB
      [] self = "HUGE_1MB" -> MAP_HUGE_2MB
      [] self = "HUGE_2MB" -> MAP_HUGE_1MB
      [] self = "HUGE_8MB" -> MAP_HUGE_8MB
      [] self = "HUGE_16MB" -> MAP_HUGE_16MB
      [] self = "HUGE_32MB" -> MAP_HUGE_32MB
      [] self = "HUGE_256MB" -> MAP_HUGE_256MB
      [] self = "HUGE_512MB" -> MAP_HUGE_512MB
      [] self = "HUGE_1GB" -> MAP_HUGE_1GB
      [] self = "HUGE_2GB" -> MAP_HUGE_2GB
      [] self = "HUGE_16GB" -> MAP_HUGE_16GB

as_libc_flag(self) ==
    CASE self = "HUGE_64KB" -> MAP_HUGE_64KB
      [] self = "HUGE_512KB" -> MAP_HUGE_512KB
      [] self = "HUGE_1MB" -> MAP_HUGE_1MB
      [] self = "HUGE_2MB" -> MAP_HUGE_2MB
      [] self = "HUGE_8MB" -> MAP_HUGE_8MB
      [] self = "HUGE_16MB" -> MAP_HUGE_16MB
      [] self = "HUGE_32MB" -> MAP_HUGE_32MB
      [] self = "HUGE_256MB" -> MAP_HUGE_256MB
      [] self = "HUGE_512MB" -> MAP_HUGE_512MB
      [] self = "HUGE_1GB" -> MAP_HUGE_1GB
      [] self = "HUGE_2GB" -> MAP_HUGE_2GB
      [] self = "HUGE_16GB" -> MAP_HUGE_16GB

as_libc_usize_slip(self) ==
    CASE self = "HUGE_64KB" -> <<65, 536>>
      [] self = "HUGE_512KB" -> <<524, 288>>
      [] self = "HUGE_1MB" -> <<1, 48, 576>>
      [] self = "HUGE_2MB" -> <<2, 97, 152>>
      [] self = "HUGE_8MB" -> <<8, 388, 608>>
      [] self = "HUGE_16MB" -> <<16, 777, 216>>
      [] self = "HUGE_32MB" -> <<33, 554, 432>>
      [] self = "HUGE_256MB" -> <<268, 435, 456>>
      [] self = "HUGE_512MB" -> <<536, 870, 912>>
      [] self = "HUGE_1GB" -> <<1, 73, 741, 824>>
      [] self = "HUGE_2GB" -> <<2, 147, 483, 647>>
      [] self = "HUGE_16GB" -> <<17, 179, 869, 184>>

as_libc_usize(self) ==
    CASE self = "HUGE_64KB" -> <<65, 536>>
      [] self = "HUGE_512KB" -> <<524, 288>>
      [] self = "HUGE_1MB" -> <<1, 48, 576>>
      [] self = "HUGE_2MB" -> <<2, 97, 152>>
      [] self = "HUGE_8MB" -> <<8, 388, 608>>
      [] self = "HUGE_16MB" -> <<16, 777, 216>>
      [] self = "HUGE_32MB" -> <<33, 554, 432>>
      [] self = "HUGE_256MB" -> <<268, 435, 456>>
      [] self = "HUGE_512MB" -> <<536, 870, 912>>
      [] self = "HUGE_1GB" -> <<1, 73, 741, 824>>
      [] self = "HUGE_2GB" -> <<2, 147, 483, 648>>
      [] self = "HUGE_16GB" -> <<17, 179, 869, 184>>

(***************************************************************************)
(* The kernel, as mmap(2) and munmap(2) specify it.                        *)
(***************************************************************************)
Addrs == 1..NumSlots

LiveIds == {i \in 1..Len(mappings) : mappings[i].live}

FreeAddrs == Addrs \ {mappings[i].addr : i \in LiveIds}

\* The possible returns of mmap(NULL, len, ..): the sentinel with an errno, or
\* the base of a range that overlaps no live mapping.  A zero length is EINVAL.
MmapOutcomes(len) ==
    IF len = <<0>>
    THEN {[p |-> MAP_FAILED, errno |-> "EINVAL"]}
    ELSE {[p |-> MAP_FAILED, errno |-> "ENOMEM"]}
         \cup {[p |-> a, errno |-> "none"] : a \in FreeAddrs}

\* The possible returns of munmap: 0, or -1 with an errno.
MunmapOutcomes ==
    {[rc |-> 0, errno |-> "none"], [rc |-> -1, errno |-> "EINVAL"],
     [rc |-> -1, errno |-> "ENOMEM"]}

\* The kernel's table after a successful mmap that returned p.  The other
\* fields are history: `by` is the argument of the `new` that made the call,
\* `unmaps` counts the munmap calls on this mapping's handle that returned 0,
\* `okdrops` the try_drop calls on it that returned Ok(()), and `failed` says
\* whether a try_drop on it has returned MunmapFailed.
Mapped(p, len, flags, by) ==
    Append(mappings, [addr |-> p, len |-> len, flags |-> flags, live |-> TRUE,
                      by |-> by, unmaps |-> 0, okdrops |-> 0,
                      failed |-> FALSE])

\* The kernel's table after munmap(addr, _) returned rc, issued for the handle
\* of mapping id: on 0 whatever is mapped at addr is gone, on -1 nothing is.
Unmapped(tbl, id, addr, rc) ==
    IF rc # 0 THEN tbl
    ELSE [i \in 1..Len(tbl) |->
            [tbl[i] EXCEPT
                !.live = IF tbl[i].addr = addr THEN FALSE ELSE @,
                !.unmaps = IF i = id THEN @ + 1 ELSE @]]

\* The table after every munmap of the sequence sys, issued for mapping id.
RECURSIVE UnmappedAll(_, _, _)
UnmappedAll(tbl, id, sys) ==
    IF sys = <<>> THEN tbl
    ELSE UnmappedAll(Unmapped(tbl, id, Head(sys).args.addr, Head(sys).ret),
                     id, Tail(sys))

\* The history of mapping id after a try_drop on its handle returned ret.
Noted(tbl, id, ret) ==
    [i \in 1..Len(tbl) |->
        IF i # id THEN tbl[i]
        ELSE [tbl[i] EXCEPT !.okdrops = IF ret.tag = "Ok" THEN @ + 1 ELSE @,
                            !.failed = IF ret.tag = "Err" THEN TRUE ELSE @]]

NoCall == [op |-> "none", sys |-> <<>>, ret |-> [tag |-> "none"]]

(***************************************************************************)
(* anonymous_mmap: AnonymousMmap { addr, len }.  `id` is a ghost field:    *)
(* the index in `mappings` of the mmap that made the handle (0: none).     *)
(***************************************************************************)
\* The lengths callers pass to AnonymousMmap::new.
Lens == {<<0>>, <<128>>, <<4, 96>>}

AnonymousMmap_mmap_args(len) ==
    [addr |-> NULL, len |-> len, prot |-> PROT_READ \cup PROT_WRITE,
     flags |-> MAP_ANONYMOUS \cup MAP_SHARED \cup MAP_POPULATE,
     fd |-> -1, offset |-> 0]

AnonymousMmap_new_ret_unchecked(len, p, os_err, id) ==
    [tag |-> "Ok", val |-> [addr |-> p, len |-> len, id |-> id]]

AnonymousMmap_new_ret(len, p, os_err, id) ==
    IF p = MAP_FAILED
    THEN [tag |-> "Err", kind |-> "MmapFailed", os_err |-> os_err]
    ELSE [tag |-> "Ok", val |-> [addr |-> p, len |-> len, id |-> id]]

AnonymousMmap_new(len) ==
    /\ \E o \in MmapOutcomes(len) :
         LET call == AnonymousMmap_mmap_args(len)
             id == IF o.p = MAP_FAILED THEN 0 ELSE Len(mappings) + 1
             ret == AnonymousMmap_new_ret(len, o.p, o.errno, id)
         IN /\ mappings' = IF o.p = MAP_FAILED THEN mappings
                           ELSE Mapped(o.p, call.len, call.flags, len)
            /\ anon_held' = IF ret.tag = "Ok" THEN anon_held \cup {ret.val}
                            ELSE anon_held
            /\ last' = [op |-> "AnonymousMmap::new", arg |-> len,
                        sys |-> <<[call |-> "mmap", args |-> call, ret |-> o.p,
                                   errno |-> o.errno]>>,
                        ret |-> ret]
    /\ UNCHANGED <<anon_errs, huge_held, huge_errs, target_endian, sock>>

AnonymousMmap_munmap_args_rounded(self) ==
    [addr |-> self.addr, len |-> <<4, 96>>]

AnonymousMmap_munmap_args(self) ==
    [addr |-> self.addr, len |-> self.len]

\* The munmap calls try_drop issues, given what the kernel answers.
AnonymousMmap_try_drop_sys(self, o) ==
    <<[call |-> "munmap", args |-> AnonymousMmap_munmap_args(self),
       ret |-> o.rc, errno |-> o.errno]>>

\* What the caller still owns of `held` once `self` was passed by value.
AnonymousMmap_moved_borrowed(held, self) == held

AnonymousMmap_moved(held, self) == held \ {self}

AnonymousMmap_try_drop_ret_torn(self, p, os_err) ==
    IF p # 0
    THEN [tag |-> "Err", kind |-> "MunmapFailed",
          handle |-> [self EXCEPT !.len = <<0>>], os_err |-> os_err]
    ELSE [tag |-> "Ok"]

AnonymousMmap_try_drop_ret(self, p, os_err) ==
    IF p # 0
    THEN [tag |-> "Err", kind |-> "MunmapFailed", handle |-> self,
          os_err |-> os_err]
    ELSE [tag |-> "Ok"]

AnonymousMmap_try_drop(self) ==
    /\ self \in anon_held
    /\ \E o \in MunmapOutcomes :
         LET sys == AnonymousMmap_try_drop_sys(self, o)
             ret == AnonymousMmap_try_drop_ret(self, o.rc, o.errno)
         IN /\ mappings' = Noted(UnmappedAll(mappings, self.id, sys),
                                    self.id, ret)
            /\ anon_held' = AnonymousMmap_moved(anon_held, self)
            /\ anon_errs' = IF ret.tag = "Err" THEN anon_errs \cup {ret}
                            ELSE anon_errs
            /\ last' = [op |-> "AnonymousMmap::try_drop", arg |-> self,
                        sys |-> sys, ret |-> ret]
    /\ UNCHANGED <<huge_held, huge_errs, target_endian, sock>>

\* The caller takes the handle back out of a MunmapFailed error, to retry.
AnonymousMmap_retake(e) ==
    /\ e \in anon_errs
    /\ anon_errs' = anon_errs \ {e}
    /\ anon_held' = anon_held \cup {e.handle}
    /\ last' = [op |-> "retake", arg |-> e.handle, sys |-> <<>>,
                ret |-> [tag |-> "none"]]
    /\ UNCHANGED <<mappings, huge_held, huge_errs, target_endian, sock>>

\* The syscalls issued when an AnonymousMmap goes out of scope: the type has
\* no Drop implementation and its fields have no drop glue.
AnonymousMmap_drop_glue_munmap(self) ==
    <<[call |-> "munmap", args |-> [addr |-> self.addr, len |-> self.len],
       ret |-> 0, errno |-> "none"]>>

AnonymousMmap_drop_glue(self) == <<>>

\* A handle, held or inside a discarded MunmapFailed error, goes out of scope.
AnonymousMmap_scope_exit(self) ==
    /\ \/ /\ self \in anon_held
          /\ anon_held' = anon_held \ {self}
          /\ UNCHANGED anon_errs
       \/ /\ \E e \in anon_errs : e.handle = self
          /\ anon_errs' = {e \in anon_errs : e.handle # self}
          /\ UNCHANGED anon_held
    /\ LET sys == AnonymousMmap_drop_glue(self)
       IN /\ mappings' = UnmappedAll(mappings, self.id, sys)
          /\ last' = [op |-> "scope_exit", arg |-> self, sys |-> sys,
                      ret |-> [tag |-> "none"]]
    /\ UNCHANGED <<huge_held, huge_errs, target_endian, sock>>

(***************************************************************************)
(* hugepage: HugePageBytes { addr, tlb_choice }, with the ghost `id`.      *)
(***************************************************************************)
HugePageBytes_mmap_args(tlb_choice) ==
    [addr |-> NULL, len |-> as_libc_usize(tlb_choice),
     prot |-> PROT_READ \cup PROT_WRITE,
     flags |-> MAP_PRIVATE \cup MAP_ANONYMOUS \cup MAP_HUGETLB \cup MAP_POPULATE
               \cup as_libc_flag(tlb_choice),
     fd |-> -1, offset |-> 0]

HugePageBytes_new_ret_unchecked(tlb_choice, p, os_err, id) ==
    [tag |-> "Ok", val |-> [addr |-> p, tlb_choice |-> tlb_choice, id |-> id]]

HugePageBytes_new_ret(tlb_choice, p, os_err, id) ==
    IF p = MAP_FAILED
    THEN [tag |-> "Err", kind |-> "MmapFailed", os_err |-> os_err]
    ELSE [tag |-> "Ok", val |-> [addr |-> p, tlb_choice |-> tlb_choice,
                                 id |-> id]]

HugePageBytes_new(tlb_choice) ==
    /\ \E o \in MmapOutcomes(as_libc_usize(tlb_choice)) :
         LET call == HugePageBytes_mmap_args(tlb_choice)
             id == IF o.p = MAP_FAILED THEN 0 ELSE Len(mappings) + 1
             ret == HugePageBytes_new_ret(tlb_choice, o.p, o.errno, id)
         IN /\ mappings' = IF o.p = MAP_FAILED THEN mappings
                           ELSE Mapped(o.p, call.len, call.flags, tlb_choice)
            /\ huge_held' = IF ret.tag = "Ok" THEN huge_held \cup {ret.val}
                            ELSE huge_held
            /\ last' = [op |-> "HugePageBytes::new", arg |-> tlb_choice,
                        sys |-> <<[call |-> "mmap", args |-> call, ret |-> o.p,
                                   errno |-> o.errno]>>,
                        ret |-> ret]
    /\ UNCHANGED <<anon_held, anon_errs, huge_errs, target_endian, sock>>

capacity(self) == as_libc_usize(self.tlb_choice)

HugePageBytes_moved(held, self) == held \ {self}

\* The munmap calls try_drop issues, given what the kernel answers.
HugePageBytes_try_drop_sys_retrying(self, o) ==
    LET call == [call |-> "munmap",
                 args |-> [addr |-> self.addr,
                           len |-> as_libc_usize(self.tlb_choice)],
                 ret |-> o.rc, errno |-> o.errno]
    IN IF o.rc # 0 THEN <<call, call>> ELSE <<call>>

HugePageBytes_try_drop_sys(self, o) ==
    <<[call |-> "munmap",
       args |-> [addr |-> self.addr, len |-> as_libc_usize(self.tlb_choice)],
       ret |-> o.rc, errno |-> o.errno]>>

HugePageBytes_try_drop_ret(self, p, os_err) ==
    IF p # 0
    THEN [tag |-> "Err", kind |-> "MunmapFailed", handle |-> self,
          os_err |-> os_err]
    ELSE [tag |-> "Ok"]

HugePageBytes_try_drop(self) ==
    /\ self \in huge_held
    /\ \E o \in MunmapOutcomes :
         LET sys == HugePageBytes_try_drop_sys(self, o)
             ret == HugePageBytes_try_drop_ret(self, o.rc, o.errno)
         IN /\ mappings' = Noted(UnmappedAll(mappings, self.id, sys),
                                    self.id, ret)
            /\ huge_held' = HugePageBytes_moved(huge_held, self)
            /\ huge_errs' = IF ret.tag = "Err" THEN huge_errs \cup {ret}
                            ELSE huge_errs
            /\ last' = [op |-> "HugePageBytes::try_drop", arg |-> self,
                        sys |-> sys, ret |-> ret]
    /\ UNCHANGED <<anon_held, anon_errs, target_endian, sock>>

\* The caller takes the handle back out of a MunmapFailed error, to retry.
HugePageBytes_retake(e) ==
    /\ e \in huge_errs
    /\ huge_errs' = huge_errs \ {e}
    /\ huge_held' = huge_held \cup {e.handle}
    /\ last' = [op |-> "retake", arg |-> e.handle, sys |-> <<>>,
                ret |-> [tag |-> "none"]]
    /\ UNCHANGED <<mappings, anon_held, anon_errs, target_endian, sock>>

\* The syscalls issued when a HugePageBytes goes out of scope: none, the type
\* has no Drop implementation.
HugePageBytes_drop_glue(self) == <<>>

HugePageBytes_scope_exit(self) ==
    /\ \/ /\ self \in huge_held
          /\ huge_held' = huge_held \ {self}
          /\ UNCHANGED huge_errs
       \/ /\ \E e \in huge_errs : e.handle = self
          /\ huge_errs' = {e \in huge_errs : e.handle # self}
          /\ UNCHANGED huge_held
    /\ LET sys == HugePageBytes_drop_glue(self)
       IN /\ mappings' = UnmappedAll(mappings, self.id, sys)
          /\ last' = [op |-> "scope_exit", arg |-> self, sys |-> sys,
                      ret |-> [tag |-> "none"]]
    /\ UNCHANGED <<anon_held, anon_errs, target_endian, sock>>

(***************************************************************************)
(* The memory-region specification.                                        *)
(***************************************************************************)
NoSock == [pc |-> "idle"]

Init ==
    /\ mappings = <<>>
    /\ anon_held = {}
    /\ anon_errs = {}
    /\ huge_held = {}
    /\ huge_errs = {}
    /\ last = NoCall
    /\ target_endian = "little"
    /\ sock = NoSock

AnonHandles == anon_held \cup {e.handle : e \in anon_errs}

HugeHandles == huge_held \cup {e.handle : e \in huge_errs}

\* The size classes the callers of the two-component specification ask for.
Choices == {"HUGE_2MB", "HUGE_16GB"}

Next ==
    \/ /\ Len(mappings) < MaxNew
       /\ \E len \in Lens : AnonymousMmap_new(len)
    \/ \E h \in anon_held : AnonymousMmap_try_drop(h)
    \/ \E e \in anon_errs : AnonymousMmap_retake(e)
    \/ \E h \in AnonHandles : AnonymousMmap_scope_exit(h)
    \/ /\ Len(mappings) < MaxNew
       /\ \E c \in Choices : HugePageBytes_new(c)
    \/ \E h \in huge_held : HugePageBytes_try_drop(h)
    \/ \E e \in huge_errs : HugePageBytes_retake(e)
    \/ \E h \in HugeHandles : HugePageBytes_scope_exit(h)

Spec == Init /\ [][Next]_vars

\* The hugepage component alone, over all twelve size classes.
NextHuge ==
    \/ /\ Len(mappings) < MaxHugeNew
       /\ \E c \in HugePageChoice : HugePageBytes_new(c)
    \/ \E h \in huge_held : HugePageBytes_try_drop(h)
    \/ \E e \in huge_errs : HugePageBytes_retake(e)
    \/ \E h \in HugeHandles : HugePageBytes_scope_exit(h)

SpecHuge == Init /\ [][NextHuge]_vars

(***************************************************************************)
(* ysockaddr: SocketAddr -> YSockAddrC -> YSockAddrR.                      *)
(* A SocketAddr is [fam, ip, port] (V4, ip of 4 octets) or                 *)
(* [fam, ip, port, flowinfo, scope_id] (V6, ip of 16 octets).              *)
(***************************************************************************)
AF_INET == 2
AF_INET6 == 10

RECURSIVE Reverse(_)
Reverse(s) == IF s = <<>> THEN <<>> ELSE Reverse(Tail(s)) \o <<Head(s)>>

\* u16::to_be: the value whose native-order bytes are x's big-endian bytes.
u16_to_be(x) ==
    IF target_endian = "little" THEN (x % 256) * 256 + (x \div 256) ELSE x

\* u32::from_ne_bytes: the value (bytes most significant first) whose memory
\* image, in the target's order, is the byte array b.
u32_from_ne_bytes(b) == IF target_endian = "little" THEN Reverse(b) ELSE b

\* u32::from_be: swap_bytes on a little-endian target, nothing on a big one.
u32_from_be(x) == IF target_endian = "little" THEN Reverse(x) ELSE x

\* Ipv4Addr::from_bits(v): the address whose octets are v's bytes, most
\* significant first, which is how v is represented here.
Ipv4Addr_from_bits(v) == [i \in 1..4 |-> v[i]]

\* u128::from_be_bytes(b): the value whose most significant byte is b[1].
u128_from_be_bytes(b) == [i \in 1..16 |-> b[i]]

\* Ipv6Addr::from_bits(v): the address whose octets are v's bytes, most
\* significant first.
Ipv6Addr_from_bits(v) == [i \in 1..16 |-> v[i]]

\* impl From<SocketAddr> for YSockAddrC
YSockAddrC_from(sa) ==
    IF sa.fam = "V4"
    THEN [tag |-> "V4", sin_family |-> AF_INET, sin_port |-> u16_to_be(sa.port),
          s_addr |-> u32_from_ne_bytes(sa.ip),
          sin_zero |-> <<0, 0, 0, 0, 0, 0, 0, 0>>, len |-> 16]
    ELSE [tag |-> "V6", sin6_family |-> AF_INET6,
          sin6_port |-> u16_to_be(sa.port), sin6_flowinfo |-> sa.flowinfo,
          s6_addr |-> sa.ip, sin6_scope_id |-> sa.scope_id, len |-> 28]

\* impl From<YSockAddrC> for YSockAddrR: the wrapped SocketAddr.
YSockAddrR_from(sa) ==
    IF sa.tag = "V4"
    THEN LET ip4 == Ipv4Addr_from_bits(u32_from_be(sa.s_addr))
         IN [fam |-> "V4", ip |-> ip4, port |-> sa.sin_port]
    ELSE LET in6_bits == u128_from_be_bytes(sa.s6_addr)
             ip6 == Ipv6Addr_from_bits(in6_bits)
         IN [fam |-> "V6", ip |-> ip6, port |-> sa.sin6_port,
             flowinfo |-> sa.sin6_flowinfo, scope_id |-> sa.sin6_scope_id]

\* YSockAddrR::as_sockaddr
as_sockaddr(r) == r

\* The addresses the conversions are run on.
Ports == {0, 1, 80, 257, 443, 8080, 65535}

V4Ips == {<<127, 0, 0, 1>>, <<192, 168, 1, 10>>, <<255, 255, 255, 255>>,
          <<0, 0, 0, 0>>}

V6Ips == {<<0, 0, 0, 0, 0, 0, 0, 0, 0, 0, 0, 0, 0, 0, 0, 1>>,
          <<254, 128, 0, 0, 0, 0, 0, 0, 2, 0, 94, 255, 254, 0, 83, 41>>,
          <<32, 1, 13, 184, 0, 0, 0, 0, 0, 0, 255, 0, 0, 66, 131, 41>>}

SocketAddrs ==
    {[fam |-> "V4", ip |-> ip, port |-> pt] : ip \in V4Ips, pt \in Ports}
    \cup {[fam |-> "V6", ip |-> ip, port |-> pt, flowinfo |-> fl,
           scope_id |-> sc] :
            ip \in V6Ips, pt \in Ports, fl \in {0, 291}, sc \in {0, 2}}

InitSock ==
    /\ mappings = <<>>
    /\ anon_held = {}
    /\ anon_errs = {}
    /\ huge_held = {}
    /\ huge_errs = {}
    /\ last = NoCall
    /\ target_endian \in {"little", "big"}
    /\ sock = NoSock

\* A caller has a SocketAddr to convert.
SockInput(sa) ==
    /\ sock.pc \in {"idle", "r"}
    /\ sock' = [pc |-> "sa", sa |-> sa]
    /\ UNCHANGED <<memvars, target_endian>>

\* YSockAddrC::from(sa)
SockToC ==
    /\ sock.pc = "sa"
    /\ sock' = [pc |-> "c", sa |-> sock.sa, c |-> YSockAddrC_from(sock.sa)]
    /\ UNCHANGED <<memvars, target_endian>>

\* YSockAddrR::from(c)
SockToR ==
    /\ sock.pc = "c"
    /\ sock' = [pc |-> "r", sa |-> sock.sa, c |-> sock.c,
                r |-> YSockAddrR_from(sock.c)]
    /\ UNCHANGED <<memvars, target_endian>>

NextSock ==
    \/ \E sa \in SocketAddrs : SockInput(sa)
    \/ SockToC
    \/ SockToR

SpecSock == InitSock /\ [][NextSock]_vars

(***************************************************************************)
(* Definitions the properties are stated with.                             *)
(***************************************************************************)
NewOps == {"AnonymousMmap::new", "HugePageBytes::new"}

TryDropOps == {"AnonymousMmap::try_drop", "HugePageBytes::try_drop"}

MapIds == 1..Len(mappings)

\* Long division by d of the number whose base-1000 digit groups, most
\* significant first, are s: q and r are the quotient and remainder so far.
RECURSIVE DivRem(_, _, _, _)
DivRem(s, d, q, r) ==
    IF s = <<>> THEN [quot |-> q, rem |-> r]
    ELSE DivRem(Tail(s), d, q * 1000 + ((r * 1000 + Head(s)) \div d),
                (r * 1000 + Head(s)) % d)

\* Whether the number with digit groups s is 2^k, for 16 <= k <= 46.
IsPow2(s, k) ==
    /\ k \in 16..46
    /\ DivRem(s, 65536, 0, 0) = [quot |-> Pow2Int(k - 16), rem |-> 0]

\* The number held in the bits of a flag word from MAP_HUGE_SHIFT up.
RECURSIVE SumPow2(_)
SumPow2(S) ==
    IF S = {} THEN 0
    ELSE LET b == CHOOSE x \in S : TRUE IN Pow2Int(b) + SumPow2(S \ {b})

HugeField(flags) == {b \in flags : b >= MAP_HUGE_SHIFT}

HugeLog2(flags) == SumPow2({b - MAP_HUGE_SHIFT : b \in HugeField(flags)})

\* The byte magnitudes the specification gives for the twelve classes.
StatedMagnitude(c) ==
    CASE c = "HUGE_64KB" -> <<65, 536>>
      [] c = "HUGE_512KB" -> <<524, 288>>
      [] c = "HUGE_1MB" -> <<1, 48, 576>>
      [] c = "HUGE_2MB" -> <<2, 97, 152>>
      [] c = "HUGE_8MB" -> <<8, 388, 608>>
      [] c = "HUGE_16MB" -> <<16, 777, 216>>
      [] c = "HUGE_32MB" -> <<33, 554, 432>>
      [] c = "HUGE_256MB" -> <<268, 435, 456>>
      [] c = "HUGE_512MB" -> <<536, 870, 912>>
      [] c = "HUGE_1GB" -> <<1, 73, 741, 824>>
      [] c = "HUGE_2GB" -> <<2, 147, 483, 648>>
      [] c = "HUGE_16GB" -> <<17, 179, 869, 184>>

(***************************************************************************)
(* Properties.                                                             *)
(***************************************************************************)

\* C1: whenever the munmap of a try_drop (of either component) returns
\* non-zero, try_drop returns MunmapFailed carrying the OS error and the very
\* handle it was called on, address and size unchanged; the caller then owns
\* that error value, and the mapping is still live, so try_drop can be called
\* on the handle again.
C1_FailedReleaseReturnsHandle ==
    (last.op \in TryDropOps /\ last.sys[Len(last.sys)].ret # 0) =>
        /\ last.ret.tag = "Err"
        /\ last.ret.kind = "MunmapFailed"
        /\ last.ret.os_err = last.sys[Len(last.sys)].errno
        /\ last.ret.handle = last.arg
        /\ last.ret.handle.addr = mappings[last.arg.id].addr
        /\ mappings[last.arg.id].live
        /\ IF last.op = "AnonymousMmap::try_drop"
           THEN last.ret \in anon_errs /\ last.arg \notin anon_held
           ELSE last.ret \in huge_errs /\ last.arg \notin huge_held

C1_Witness ==
    /\ last.op = "AnonymousMmap::try_drop"
    /\ last.ret.tag = "Err"
    /\ mappings[last.arg.id].failed
    /\ huge_errs # {}

\* C2: release is single-use: once a try_drop returned Ok(()) for a mapping no
\* handle for it exists, neither held nor inside an error, and at most one
\* munmap ever succeeded for it.
C2_ReleaseIsSingleUse ==
    /\ \A i \in MapIds :
         /\ mappings[i].unmaps <= 1
         /\ mappings[i].okdrops <= 1
         /\ mappings[i].okdrops = 1 =>
              /\ \A h \in AnonHandles : h.id # i
              /\ \A h \in HugeHandles : h.id # i
    /\ \A h \in anon_held : \A e \in anon_errs : e.handle.id # h.id
    /\ \A h \in huge_held : \A e \in huge_errs : e.handle.id # h.id

\* A released mapping whose address the kernel has handed out again, to a
\* handle that is held.
C2_Witness ==
    /\ Len(mappings) = 2
    /\ mappings[1].okdrops = 1
    /\ mappings[2].live
    /\ mappings[2].addr = mappings[1].addr
    /\ \E h \in anon_held : h.id = 2

\* C3: new returns a handle if and only if mmap returned something other than
\* MAP_FAILED; on MAP_FAILED it returns MmapFailed with the OS error, creates
\* no handle (every handle is the result of a successful mmap) and no munmap
\* is issued for the attempt.
C3_HandleIffMmapSucceeded ==
    /\ last.op \in NewOps =>
         LET m == last.sys[1]
         IN /\ last.ret.tag = "Ok" <=> m.ret # MAP_FAILED
            /\ m.ret = MAP_FAILED =>
                 /\ last.ret.tag = "Err"
                 /\ last.ret.kind = "MmapFailed"
                 /\ last.ret.os_err = m.errno
            /\ m.ret # MAP_FAILED =>
                 /\ last.ret.val.addr = m.ret
                 /\ last.ret.val.id = Len(mappings)
                 /\ IF last.op = "AnonymousMmap::new"
                    THEN last.ret.val \in anon_held
                    ELSE last.ret.val \in huge_held
            /\ \A k \in 1..Len(last.sys) : last.sys[k].call # "munmap"
    /\ \A h \in AnonHandles : h.id \in MapIds
    /\ \A h \in HugeHandles : h.id \in MapIds
    /\ \A k \in 1..Len(last.sys) :
         last.sys[k].call = "munmap" => last.sys[k].args.addr # MAP_FAILED

\* A failed new after an earlier one succeeded: the earlier handle is all
\* there is.
C3_Witness ==
    /\ last.op = "HugePageBytes::new"
    /\ last.ret.tag = "Err"
    /\ Len(mappings) = 1
    /\ Cardinality(anon_held) + Cardinality(huge_held) = 1

\* C4: capacity() of a HugePageBytes constructed with class C is the stated
\* magnitude of C, for as long as the handle exists, held or handed back by a
\* failed release.
C4_CapacityIsMagnitude ==
    /\ \A h \in HugeHandles :
         capacity(h) = StatedMagnitude(mappings[h.id].by)
    /\ (last.op = "HugePageBytes::new" /\ last.ret.tag = "Ok") =>
         capacity(last.ret.val) = StatedMagnitude(last.arg)

C4_Witness ==
    \E e \in huge_errs :
        /\ mappings[e.handle.id].by = "HUGE_16GB"
        /\ capacity(e.handle) = <<17, 179, 869, 184>>

\* C5: the mmap request of HugePageBytes::new(C) has the magnitude of C as its
\* length and MAP_HUGETLB with the size flag of C: the bits from MAP_HUGE_SHIFT
\* up hold log2 of that length, and no other class has that flag or length.
C5_FlagMatchesMagnitude ==
    last.op = "HugePageBytes::new" =>
        LET req == last.sys[1].args
        IN /\ req.len = as_libc_usize(last.arg)
           /\ MAP_HUGETLB \subseteq req.flags
           /\ HugeField(req.flags) = as_libc_flag(last.arg)
           /\ IsPow2(req.len, HugeLog2(req.flags))
           /\ \A d \in HugePageChoice \ {last.arg} :
                /\ as_libc_flag(d) # HugeField(req.flags)
                /\ as_libc_usize(d) # req.len

\* The class whose flag, 34 << 26, reaches the sign bit of the c_int.
C5_Witness ==
    /\ last.op = "HugePageBytes::new"
    /\ last.arg = "HUGE_16GB"
    /\ last.ret.tag = "Ok"
    /\ HugeLog2(last.sys[1].args.flags) = 34

\* C6: every munmap of a try_drop, first attempt or retry, has the address
\* mmap returned for the handle and the length that mmap was called with:
\* for AnonymousMmap the caller's len as given, for HugePageBytes the
\* magnitude of the class it was constructed with.
C6_MunmapUsesMmapPair ==
    last.op \in TryDropOps =>
        \A k \in 1..Len(last.sys) :
            LET m == mappings[last.arg.id]
            IN /\ last.sys[k].call = "munmap"
               /\ last.sys[k].args.addr = m.addr
               /\ last.sys[k].args.len = m.len
               /\ IF last.op = "AnonymousMmap::try_drop"
                  THEN m.len = m.by /\ last.arg.len = m.by
                  ELSE m.len = as_libc_usize(m.by) /\ last.arg.tlb_choice = m.by

\* A retry, on a length that is no multiple of a page.
C6_Witness ==
    /\ last.op = "AnonymousMmap::try_drop"
    /\ last.ret.tag = "Ok"
    /\ mappings[last.arg.id].failed
    /\ last.sys[1].args.len = <<128>>

\* C7: no internal retry: a call of new issues exactly one mmap, a call of
\* try_drop exactly one munmap, and what the call returns is the outcome of
\* that one kernel call.
C7_OneKernelCallPerCall ==
    /\ last.op \in NewOps =>
         /\ Len(last.sys) = 1
         /\ last.sys[1].call = "mmap"
         /\ last.ret.tag = "Err" <=> last.sys[1].ret = MAP_FAILED
    /\ last.op \in TryDropOps =>
         /\ Len(last.sys) = 1
         /\ last.sys[1].call = "munmap"
         /\ last.ret.tag = "Err" <=> last.sys[1].ret # 0

C7_Witness ==
    /\ last.op = "HugePageBytes::try_drop"
    /\ last.ret.tag = "Err"
    /\ last.sys[1].errno = "ENOMEM"
    /\ mappings[last.arg.id].live

\* C8: every handle that exists, held or inside an error, has an address that
\* is neither null nor MAP_FAILED and is the one a successful mmap returned.
C8_HandleAddrIsMapped ==
    /\ \A h \in AnonHandles :
         /\ h.addr # NULL
         /\ h.addr # MAP_FAILED
         /\ h.id \in MapIds
         /\ mappings[h.id].addr = h.addr
    /\ \A h \in HugeHandles :
         /\ h.addr # NULL
         /\ h.addr # MAP_FAILED
         /\ h.id \in MapIds
         /\ mappings[h.id].addr = h.addr

C8_Witness ==
    /\ \E h \in anon_held : mappings[h.id].failed
    /\ huge_errs # {}
    /\ last.op = "retake"

\* C10: munmap is issued only by try_drop: a handle going out of scope, held
\* or inside a discarded MunmapFailed, issues none and leaves its mapping
\* live, and a mapping is unmapped only if a try_drop on it returned Ok(()).
C10_OnlyTryDropUnmaps ==
    /\ \A k \in 1..Len(last.sys) :
         last.sys[k].call = "munmap" => last.op \in TryDropOps
    /\ \A i \in MapIds : ~mappings[i].live => mappings[i].okdrops >= 1
    /\ last.op = "scope_exit" =>
         /\ last.sys = <<>>
         /\ mappings[last.arg.id].live

\* A discarded MunmapFailed: the handle is gone and the mapping stays.
C10_Witness ==
    /\ last.op = "scope_exit"
    /\ mappings[last.arg.id].failed
    /\ mappings[last.arg.id].live
    /\ \A h \in AnonHandles : h.id # last.arg.id
    /\ \A h \in HugeHandles : h.id # last.arg.id

\* C9: converting a SocketAddr to YSockAddrC and back to YSockAddrR gives
\* as_sockaddr() equal to the original: same IP, port, flowinfo, scope_id.
C9_RoundTrip ==
    sock.pc = "r" => as_sockaddr(sock.r) = sock.sa

=============================================================================
